---------------------------- MODULE Spec2Model ----------------------------
(***************************************************************************)
(* archivo: a content-addressable file/directory store.                    *)
(*                                                                         *)
(* The model follows src/archivo/specs.py (spec tree, read_spec,           *)
(* iter_paths_and_specs, check_fulfils_spec) and src/archivo/storage.py    *)
(* (Storage.store, Storage._restore_into, Storage.restore).                *)
(*                                                                         *)
(* A filesystem tree is a function from the paths of a small fixed         *)
(* namespace to nodes; a path is the sequence of its components, starting  *)
(* with the name of the tree's root (the relative paths that                *)
(* iter_paths_and_specs yields).  A node that does not exist is Absent.    *)
(***************************************************************************)
EXTENDS Naturals, Sequences, FiniteSets, TLC

(***************************************************************************)
(* Bounds of the model.                                                    *)
(***************************************************************************)
\* file contents that source trees draw from are 1..MaxContent
MaxContent == 2
\* modification times of source nodes are 1..MaxMtime
MaxMtime == 2
\* calls of store/restore started in one behaviour
MaxCalls == 3
\* interventions of the environment (edits of the source, of the
\* destination, of a blob) in one behaviour
MaxEnv == 1
\* I/O faults injected in one behaviour
MaxFaults == 1

(***************************************************************************)
(* The namespace: root "r", its entries "x" and "y", and "z" inside "x".   *)
(***************************************************************************)
RootName == "r"
RootPath == <<RootName>>
AllPaths == {<<"r">>, <<"r", "x">>, <<"r", "y">>, <<"r", "x", "z">>}

Parent(p) == SubSeq(p, 1, Len(p) - 1)
BaseName(p) == p[Len(p)]
IsChildOf(q, p) == Len(q) = Len(p) + 1 /\ SubSeq(q, 1, Len(p)) = p
IsUnder(q, p) == Len(q) >= Len(p) /\ SubSeq(q, 1, Len(p)) = p

(***************************************************************************)
(* Nodes.  bytes identifies a file's whole content; perm are the           *)
(* permission bits of st_mode and mtime is st_mtime_ns.                    *)
(***************************************************************************)
Contents == 1 .. (MaxContent + 1)     \* one content no source tree holds
SrcContents == 1 .. MaxContent
\* the metadata source nodes draw from: mtime 1..MaxMtime, each with its perm
Metas == {[perm |-> m % 2, mtime |-> m] : m \in 1 .. MaxMtime}
\* the clock reading of every creation or modification made by a call
Now == MaxMtime + 1
\* permission bits of a freshly created file or directory (umask applied)
FreshPerm == 1

Absent == [kind |-> "absent", bytes |-> 0, perm |-> 0, mtime |-> 0]
FileNode(b, m) == [kind |-> "file", bytes |-> b, perm |-> m.perm, mtime |-> m.mtime]
DirNode(m) == [kind |-> "dir", bytes |-> 0, perm |-> m.perm, mtime |-> m.mtime]
\* a symbolic link whose target exists (Path.exists() follows it)
SymlinkNode == [kind |-> "symlink", bytes |-> 0, perm |-> 0, mtime |-> 0]

FileNodes == {FileNode(b, m) : b \in SrcContents, m \in Metas}
DirNodes == {DirNode(m) : m \in Metas}

EmptyTree == [p \in AllPaths |-> Absent]
Exists(t, p) == p \in AllPaths /\ t[p].kind # "absent"
IsFile(t, p) == p \in AllPaths /\ t[p].kind = "file"
IsDir(t, p) == p \in AllPaths /\ t[p].kind = "dir"
Put(t, p, n) == [t EXCEPT ![p] = n]
Children(t, p) == {q \in AllPaths : IsChildOf(q, p) /\ Exists(t, q)}

(***************************************************************************)
(* The well-formed trees of regular files and directories: every existing  *)
(* node's parent is an existing directory.                                 *)
(***************************************************************************)
WellFormed(t) ==
    \A p \in AllPaths :
        (Exists(t, p) /\ Len(p) > 1) => IsDir(t, Parent(p))

LeafChoices == {Absent} \cup FileNodes
DirShapes ==
    {[p \in AllPaths |->
        CASE p = <<"r">> -> d
          [] p = <<"r", "x">> -> x
          [] p = <<"r", "y">> -> y
          [] OTHER -> z] :
        d \in DirNodes,
        x \in LeafChoices \cup DirNodes,
        y \in LeafChoices,
        z \in LeafChoices}
Trees ==
    {Put(EmptyTree, RootPath, f) : f \in FileNodes}
    \cup {t \in DirShapes : WellFormed(t)}

(***************************************************************************)
(* specs.py: the spec tree.                                                *)
(***************************************************************************)
FileMeta(mode, mtime_ns, size) ==
    [type |-> "FileMeta", mode |-> mode, mtime_ns |-> mtime_ns, size |-> size]
DirMeta(mode, mtime_ns) ==
    [type |-> "DirMeta", mode |-> mode, mtime_ns |-> mtime_ns]
FileSpec(name, hash_name, hexdigest, meta) ==
    [type |-> "FileSpec", name |-> name, hash_name |-> hash_name,
     hexdigest |-> hexdigest, meta |-> meta]
DirSpec(name, contents, meta) ==
    [type |-> "DirSpec", name |-> name, contents |-> contents, meta |-> meta]
NoSpec == [type |-> "None"]
NoMeta == [type |-> "None"]

DEFAULT_HASH == "sha256"

\* st_size of a file holding content b: contents 1 and 2 have the same size
SizeOf(b) == (b + 1) \div 2
\* st_mode: the file-type bits (S_IFREG, S_IFDIR) plus the permission bits
StMode(n) == (IF n.kind = "file" THEN 32768 ELSE 16384) + n.perm

\* hashlib over the whole byte stream: one digest per content and algorithm
get_file_hexdigest(b, hash_name) ==
    IF hash_name = "sha256" THEN 7 * b + 3 ELSE 5 * b + 1

read_meta(t, p) ==
    IF IsFile(t, p) THEN FileMeta(StMode(t[p]), t[p].mtime, SizeOf(t[p].bytes))
    ELSE IF IsDir(t, p) THEN DirMeta(StMode(t[p]), t[p].mtime)
    ELSE NoMeta

get_apparent_name(p) == BaseName(p)

\* every enumeration order of a set: Path.iterdir() yields in arbitrary order
Orderings(S) ==
    {s \in [1 .. Cardinality(S) -> S] :
        \A i, j \in 1 .. Cardinality(S) : s[i] = s[j] => i = j}

RECURSIVE SeqProduct(_)
\* the sequences drawing their i-th element from sets[i]
SeqProduct(sets) ==
    IF Len(sets) = 0 THEN {<< >>}
    ELSE {<<h>> \o tl : h \in Head(sets), tl \in SeqProduct(Tail(sets))}

\* read_spec of a regular file
read_file_spec(t, p, hash_name) ==
    FileSpec(get_apparent_name(p), hash_name,
             get_file_hexdigest(t[p].bytes, hash_name), read_meta(t, p))

RECURSIVE read_spec(_, _, _)
\* the specs read_spec(path, hash_name) can return on a tree of regular
\* files and directories, one for each enumeration order of each directory
read_spec(t, p, hash_name) ==
    IF IsFile(t, p) THEN {read_file_spec(t, p, hash_name)}
    ELSE UNION {
        {DirSpec(get_apparent_name(p), cs, read_meta(t, p)) :
            cs \in SeqProduct([i \in 1 .. Len(order) |->
                                 read_spec(t, order[i], hash_name)])} :
        order \in Orderings(Children(t, p))}

RECURSIVE iter_rec(_, _, _, _)
RECURSIVE iter_children(_, _, _, _, _)
\* _iter_paths_and_specs yielding a directory after its contents
iter_rec_postorder(spec, subdir, dirs, files) ==
    LET this_path == Append(subdir, spec.name)
    IN  IF spec.type = "FileSpec"
        THEN (IF files THEN << <<this_path, spec>> >> ELSE << >>)
        ELSE iter_children(spec.contents, 1, this_path, dirs, files)
             \o (IF dirs THEN << <<this_path, spec>> >> ELSE << >>)
\* _iter_paths_and_specs: depth-first pre-order pairs <<relative path, spec>>
iter_rec(spec, subdir, dirs, files) ==
    LET this_path == Append(subdir, spec.name)
    IN  IF spec.type = "FileSpec"
        THEN (IF files THEN << <<this_path, spec>> >> ELSE << >>)
        ELSE (IF dirs THEN << <<this_path, spec>> >> ELSE << >>)
             \o iter_children(spec.contents, 1, this_path, dirs, files)
iter_children(contents, i, this_path, dirs, files) ==
    IF i > Len(contents) THEN << >>
    ELSE iter_rec(contents[i], this_path, dirs, files)
         \o iter_children(contents, i + 1, this_path, dirs, files)

iter_paths_and_specs(spec, dirs, files) == iter_rec(spec, << >>, dirs, files)

(***************************************************************************)
(* specs.py: check_fulfils_spec.  The result records what was raised, the  *)
(* relative path it was raised for, and the filesystem reads in the order  *)
(* the code makes them: "meta" for exists()+read_meta of a node, "hash"    *)
(* for a read_spec of a file (which streams it through the digest).        *)
(***************************************************************************)
CheckResult(result, at, trace) == [result |-> result, at |-> at, trace |-> trace]
NoCheck == CheckResult("none", << >>, << >>)

\* the least element of a non-empty set of numbers
Min(S) == CHOOSE i \in S : \A j \in S : i <= j

\* the first loop (lines 159-180): does node i of the traversal fail it
meta_mismatch(t, pairs, i) ==
    \/ ~Exists(t, pairs[i][1])
    \/ read_meta(t, pairs[i][1]) # pairs[i][2].meta

\* the second loop comparing the metadata only, not the digest
file_mismatch_meta_only(t, pairs, j) ==
    read_meta(t, pairs[j][1]) # pairs[j][2].meta
\* the second loop (lines 183-196): does file j of the traversal fail it
file_mismatch(t, pairs, j) ==
    read_file_spec(t, pairs[j][1], pairs[j][2].hash_name) # pairs[j][2]

\* one loop in the place of two: each file is hashed right after its own
\* metadata was compared
check_single_pass(t, root_spec) ==
    LET all == iter_paths_and_specs(root_spec, TRUE, TRUE)
        isfile(i) == all[i][2].type = "FileSpec"
        bad == {i \in 1 .. Len(all) :
                    \/ meta_mismatch(t, all, i)
                    \/ isfile(i) /\ file_mismatch(t, all, i)}
        last == IF bad = {} THEN Len(all) ELSE Min(bad)
        events(i) ==
            IF isfile(i) /\ ~meta_mismatch(t, all, i)
            THEN << <<"meta", all[i][1]>>, <<"hash", all[i][1]>> >>
            ELSE << <<"meta", all[i][1]>> >>
        trace[i \in 0 .. Len(all)] ==
            IF i = 0 THEN << >> ELSE trace[i - 1] \o events(i)
    IN  IF t[RootPath].kind = "symlink"
        THEN CheckResult("ValueError", RootPath, << >>)
        ELSE IF bad # {}
        THEN CheckResult("DifferentSpec", all[last][1], trace[last])
        ELSE CheckResult("ok", << >>, trace[last])

check_fulfils_spec(t, root_spec) ==
    LET all == iter_paths_and_specs(root_spec, TRUE, TRUE)
        fls == iter_paths_and_specs(root_spec, FALSE, TRUE)
        bad1 == {i \in 1 .. Len(all) : meta_mismatch(t, all, i)}
        metas(n) == [i \in 1 .. n |-> <<"meta", all[i][1]>>]
        bad2 == {j \in 1 .. Len(fls) : file_mismatch(t, fls, j)}
        hashes(n) == [j \in 1 .. n |-> <<"hash", fls[j][1]>>]
    IN  IF t[RootPath].kind = "symlink"
        THEN CheckResult("ValueError", RootPath, << >>)
        ELSE IF bad1 # {}
        THEN CheckResult("DifferentSpec", all[Min(bad1)][1], metas(Min(bad1)))
        ELSE IF bad2 # {}
        THEN CheckResult("DifferentSpec", fls[Min(bad2)][1],
                         metas(Len(all)) \o hashes(Min(bad2)))
        ELSE CheckResult("ok", << >>, metas(Len(all)) \o hashes(Len(fls)))

(***************************************************************************)
(* State.                                                                  *)
(***************************************************************************)
VARIABLES
    src,        \* the tree at src_path, rooted at its apparent name
    blobs,      \* the blob namespace: address -> the file stored there
    tmpdir,     \* does a staging directory exist in the storage root
    tmp,        \* the tree inside the staging directory
    dstdir,     \* dst_dir: [exists, mtime]
    dst,        \* the tree at dst_dir / spec.name
    pc,         \* position of the call in progress ("idle": none)
    queue,      \* what the loop in progress has still to visit
    spec,       \* store: the spec read; restore: the spec argument
    manifest,   \* the spec the last completed store returned
    result,     \* [op, outcome] of the last call that ended
    chk,        \* result of the last check_fulfils_spec
    calls,      \* calls started
    envs,       \* kinds of intervention the environment has made
    faults,     \* faults injected
    prev,       \* the state when the call in progress (or the last) started
    mkdtemps,   \* staging directories created so far
    overwrites, \* renames that replaced an existing blob
    stored,     \* contents of the files that store's loop has handled
    quiet,      \* nothing has intervened since the last call ended
    storage_meta, \* Storage.meta: the configuration record read at open
    other       \* the call of a second process, while it is not running

vars == <<src, blobs, tmpdir, tmp, dstdir, dst, pc, queue, spec, manifest,
          result, chk, calls, envs, faults, prev, mkdtemps, overwrites, stored,
          quiet, storage_meta, other>>

\* the hash names a configuration record can hold
HashNames == {"sha256", "md5"}

\* Storage.hash_name, read from the configuration record at open
hash_name == storage_meta.hash_name

\* the addresses a blob can have: root / hash_name / hexdigest
Addresses == {<<h, get_file_hexdigest(b, h)>> : h \in HashNames, b \in Contents}
NoBlobs == [a \in Addresses |-> Absent]

_get_storage_path(file_spec) == <<file_spec.hash_name, file_spec.hexdigest>>

\* Path.exists() of a blob address
blob_exists(a) == a \in Addresses /\ blobs[a].kind # "absent"

\* has_file that never finds the blob
has_file_never(file_spec) == FALSE
has_file(file_spec) == blob_exists(_get_storage_path(file_spec))

Snapshot ==
    [src |-> src, dst |-> dst, dstdir |-> dstdir, blobs |-> blobs,
     manifest |-> manifest, mkdtemps |-> mkdtemps]

\* the process-local part of the state: the position of a call, its staging
\* directory, its spec and how it ended
Proc(c, q, s, d, t, r) ==
    [pc |-> c, queue |-> q, spec |-> s, tmpdir |-> d, tmp |-> t, result |-> r]
IdleProc ==
    Proc("idle", << >>, NoSpec, FALSE, EmptyTree, [op |-> "none", outcome |-> "none"])

\* the state a new storage (Storage.create) and an untouched dst_dir start in
InitWith(hashes) ==
    /\ storage_meta \in [hash_name : hashes]
    /\ other = IdleProc
    /\ src \in Trees
    /\ blobs = NoBlobs
    /\ tmpdir = FALSE
    /\ tmp = EmptyTree
    /\ dstdir = [exists |-> TRUE, mtime |-> 1]
    /\ dst = EmptyTree
    /\ pc = "idle"
    /\ queue = << >>
    /\ spec = NoSpec
    /\ manifest = NoSpec
    /\ result = [op |-> "none", outcome |-> "none"]
    /\ chk = NoCheck
    /\ calls = 0
    /\ envs = {}
    /\ faults = 0
    /\ prev = [src |-> src, dst |-> EmptyTree, dstdir |-> dstdir,
               blobs |-> NoBlobs, manifest |-> NoSpec, mkdtemps |-> 0]
    /\ mkdtemps = 0
    /\ overwrites = 0
    /\ stored = {}
    /\ quiet = TRUE

\* Storage.create(path) with the default hash_name
Init == InitWith({DEFAULT_HASH})

(***************************************************************************)
(* Filesystem primitives.                                                  *)
(***************************************************************************)
\* an entry was created in, or removed from, the directory p
TouchDir(t, p) ==
    IF p \in AllPaths /\ IsDir(t, p) THEN [t EXCEPT ![p].mtime = Now] ELSE t

\* shutil.copy in the place of copy2: the bytes and the mode, a new mtime
copy_without_times(n) ==
    [kind |-> "file", bytes |-> n.bytes, perm |-> n.perm, mtime |-> Now]
\* shutil.copy2: the bytes, then copystat (mode and mtime)
copy2(n) == [kind |-> "file", bytes |-> n.bytes, perm |-> n.perm, mtime |-> n.mtime]

\* shutil.copytree: directories are created, files copied with copy2, and
\* each directory gets copystat after its entries were written
copytree(t) ==
    [p \in AllPaths |->
        IF IsFile(t, p) THEN copy2(t[p])
        ELSE IF IsDir(t, p)
        THEN [kind |-> "dir", bytes |-> 0, perm |-> t[p].perm, mtime |-> t[p].mtime]
        ELSE Absent]

\* os.chmod: only the permission bits of the mode are applied
set_mode(t, p, mode) == [t EXCEPT ![p].perm = mode % 4096]
\* os.utime with the recorded mtime
set_mtime_ns(t, p, mtime_ns) == [t EXCEPT ![p].mtime = mtime_ns]

_restore_metadata(t, meta, p) ==
    set_mtime_ns(set_mode(t, p, meta.mode), p, meta.mtime_ns)

\* TemporaryDirectory.__exit__: the staging directory and all in it is removed
Cleanup ==
    /\ tmpdir' = FALSE
    /\ tmp' = EmptyTree
    /\ queue' = << >>
    /\ pc' = "idle"

Ends(op, outcome) ==
    /\ result' = [op |-> op, outcome |-> outcome]
    /\ quiet' = TRUE

(***************************************************************************)
(* Storage.store(src_path), storage.py lines 89-106.                       *)
(***************************************************************************)
\* lines 91-93 with shutil.move in the place of the copy of _copy_into
StoreMovesSource ==
    /\ pc = "idle"
    /\ calls < MaxCalls
    /\ src[RootPath].kind \in {"file", "dir"}
    /\ calls' = calls + 1
    /\ prev' = Snapshot
    /\ tmpdir' = TRUE
    /\ mkdtemps' = mkdtemps + 1
    /\ tmp' = copytree(src)
    /\ src' = EmptyTree
    /\ pc' = "s_read"
    /\ spec' = NoSpec
    /\ UNCHANGED <<storage_meta, other, quiet, blobs, dstdir, dst, queue,
                   manifest, result, chk, envs, faults, overwrites, stored>>

\* lines 91-93: the staging directory is made and src_path copied into it
StoreCopy ==
    /\ pc = "idle"
    /\ calls < MaxCalls
    /\ src[RootPath].kind \in {"file", "dir"}
    /\ calls' = calls + 1
    /\ prev' = Snapshot
    /\ tmpdir' = TRUE
    /\ mkdtemps' = mkdtemps + 1
    /\ tmp' = copytree(src)
    /\ pc' = "s_read"
    /\ spec' = NoSpec
    /\ UNCHANGED <<storage_meta, other, quiet, src, blobs, dstdir, dst, queue, manifest, result, chk,
                   envs, faults, overwrites, stored>>

\* lines 91-93 when src_path is neither a directory nor a file (it does not
\* exist): the staging directory is made, _copy_into raises ValueError
\* (line 42) and the with block removes the staging directory
StoreUnsupported ==
    /\ pc = "idle"
    /\ calls < MaxCalls
    /\ src[RootPath].kind \notin {"file", "dir"}
    /\ calls' = calls + 1
    /\ prev' = Snapshot
    /\ mkdtemps' = mkdtemps + 1
    /\ spec' = NoSpec
    /\ Cleanup
    /\ Ends("store", "ValueError")
    /\ UNCHANGED <<storage_meta, other, src, blobs, dstdir, dst, manifest, chk,
                   envs, faults, overwrites, stored>>

\* line 95 with the default hash name in the place of self.hash_name
StoreReadSpecDefaultHash ==
    /\ pc = "s_read"
    /\ \E s \in read_spec(tmp, RootPath, DEFAULT_HASH) :
        /\ spec' = s
        /\ queue' = iter_paths_and_specs(s, FALSE, TRUE)
    /\ pc' = "s_files"
    /\ UNCHANGED <<storage_meta, other, quiet, src, blobs, tmpdir, tmp, dstdir,
                   dst, manifest, result, chk, calls, envs, faults, prev,
                   mkdtemps, overwrites, stored>>

\* line 95 and the start of the loop of line 97
StoreReadSpec ==
    /\ pc = "s_read"
    /\ \E s \in read_spec(tmp, RootPath, hash_name) :
        /\ spec' = s
        /\ queue' = iter_paths_and_specs(s, FALSE, TRUE)
    /\ pc' = "s_files"
    /\ UNCHANGED <<storage_meta, other, quiet, src, blobs, tmpdir, tmp, dstdir, dst, manifest, result, chk,
                   calls, envs, faults, prev, mkdtemps, overwrites, stored>>

\* lines 98-99: a file whose blob exists is skipped
StoreSkip ==
    /\ pc = "s_files"
    /\ queue # << >>
    /\ has_file(Head(queue)[2])
    /\ queue' = Tail(queue)
    /\ stored' = stored \cup {tmp[Head(queue)[1]].bytes}
    /\ UNCHANGED <<storage_meta, other, quiet, src, blobs, tmpdir, tmp, dstdir, dst, pc, spec, manifest,
                   result, chk, calls, envs, faults, prev, mkdtemps, overwrites>>

\* line 98 found no blob: the file is going to be moved
StoreAbsent ==
    /\ pc = "s_files"
    /\ queue # << >>
    /\ ~has_file(Head(queue)[2])
    /\ pc' = "s_move"
    /\ UNCHANGED <<storage_meta, other, quiet, src, blobs, tmpdir, tmp, dstdir, dst, queue, spec, manifest,
                   result, chk, calls, envs, faults, prev, mkdtemps, overwrites,
                   stored>>

\* lines 101-104 writing the blob in place instead of renaming a complete
\* file: a truncated file is at the address while the write goes on
StoreWritesInPlace ==
    /\ pc = "s_move"
    /\ LET rel_path == Head(queue)[1]
           dst_path == _get_storage_path(Head(queue)[2])
       IN  /\ blobs' = [blobs EXCEPT
                            ![dst_path] = [tmp[rel_path] EXCEPT
                                               !.bytes = MaxContent + 1]]
           /\ overwrites' = overwrites
           /\ tmp' = tmp
           /\ stored' = stored \cup {tmp[rel_path].bytes}
    /\ queue' = Tail(queue)
    /\ pc' = "s_files"
    /\ UNCHANGED <<storage_meta, other, quiet, src, tmpdir, dstdir, dst, spec,
                   manifest, result, chk, calls, envs, faults, prev, mkdtemps>>

\* lines 101-104: the staged file is renamed to its address
StoreMove ==
    /\ pc = "s_move"
    /\ LET rel_path == Head(queue)[1]
           dst_path == _get_storage_path(Head(queue)[2])
       IN  /\ blobs' = [blobs EXCEPT ![dst_path] = tmp[rel_path]]
           /\ overwrites' = overwrites
                            + (IF blobs[dst_path].kind # "absent" THEN 1 ELSE 0)
           /\ tmp' = TouchDir(Put(tmp, rel_path, Absent), Parent(rel_path))
           /\ stored' = stored \cup {tmp[rel_path].bytes}
    /\ queue' = Tail(queue)
    /\ pc' = "s_files"
    /\ UNCHANGED <<storage_meta, other, quiet, src, tmpdir, dstdir, dst, spec, manifest, result, chk,
                   calls, envs, faults, prev, mkdtemps>>

\* line 106, leaving the with block
StoreReturn ==
    /\ pc = "s_files"
    /\ queue = << >>
    /\ Cleanup
    /\ manifest' = spec
    /\ Ends("store", "ok")
    /\ UNCHANGED <<storage_meta, other, src, blobs, dstdir, dst, spec, chk, calls, envs, faults,
                   prev, mkdtemps, overwrites, stored>>

(***************************************************************************)
(* Storage.restore(spec, dst_dir), storage.py lines 112-151.  The spec     *)
(* argument is the manifest of the last store.                             *)
(***************************************************************************)
\* the first loop of _restore_into that has something to visit
Phase(root_spec, from) ==
    LET dirs == iter_paths_and_specs(root_spec, TRUE, FALSE)
        fls == iter_paths_and_specs(root_spec, FALSE, TRUE)
        all == iter_paths_and_specs(root_spec, TRUE, TRUE)
    IN  IF from = "r_dirs" /\ dirs # << >> THEN <<"r_dirs", dirs>>
        ELSE IF from \in {"r_dirs", "r_files"} /\ fls # << >> THEN <<"r_files", fls>>
        ELSE IF from \in {"r_dirs", "r_files", "r_meta"} THEN <<"r_meta", all>>
        ELSE <<"r_verify", << >> >>

\* the loop goes on, or the next loop starts
Advance(this, next) ==
    IF Tail(queue) # << >>
    THEN pc' = this /\ queue' = Tail(queue)
    ELSE pc' = Phase(spec, next)[1] /\ queue' = Phase(spec, next)[2]

\* lines 138-145 without the return of line 145: a destination that fulfils
\* the spec is staged and renamed all the same
RestoreExistingNoReturn ==
    /\ pc = "idle"
    /\ calls < MaxCalls
    /\ manifest # NoSpec
    /\ Exists(dst, RootPath)
    /\ calls' = calls + 1
    /\ prev' = Snapshot
    /\ spec' = manifest
    /\ chk' = check_fulfils_spec(dst, manifest)
    /\ IF check_fulfils_spec(dst, manifest).result = "ok"
       THEN /\ tmpdir' = TRUE
            /\ mkdtemps' = mkdtemps + 1
            /\ pc' = Phase(manifest, "r_dirs")[1]
            /\ queue' = Phase(manifest, "r_dirs")[2]
            /\ UNCHANGED <<storage_meta, other, result, quiet>>
       ELSE /\ Ends("restore", "CollisionError")
            /\ UNCHANGED <<storage_meta, other, tmpdir, mkdtemps, pc, queue>>
    /\ UNCHANGED <<storage_meta, other, src, blobs, tmp, dstdir, dst, manifest, envs, faults,
                   overwrites, stored>>

\* lines 138-145: something is at dst_path
RestoreExisting ==
    /\ pc = "idle"
    /\ calls < MaxCalls
    /\ manifest # NoSpec
    /\ Exists(dst, RootPath)
    /\ calls' = calls + 1
    /\ prev' = Snapshot
    /\ spec' = manifest
    /\ LET r == check_fulfils_spec(dst, manifest)
       IN  /\ chk' = r
           /\ Ends("restore",
                   CASE r.result = "ok" -> "ok"
                     [] r.result = "DifferentSpec" -> "CollisionError"
                     [] OTHER -> r.result)
    /\ UNCHANGED <<storage_meta, other, src, blobs, tmpdir, tmp, dstdir, dst, pc, queue, manifest,
                   envs, faults, mkdtemps, overwrites, stored>>

\* lines 147-149: nothing is at dst_path
RestoreBegin ==
    /\ pc = "idle"
    /\ calls < MaxCalls
    /\ manifest # NoSpec
    /\ ~Exists(dst, RootPath)
    /\ calls' = calls + 1
    /\ prev' = Snapshot
    /\ spec' = manifest
    /\ tmpdir' = TRUE
    /\ mkdtemps' = mkdtemps + 1
    /\ pc' = Phase(manifest, "r_dirs")[1]
    /\ queue' = Phase(manifest, "r_dirs")[2]
    /\ UNCHANGED <<storage_meta, other, quiet, src, blobs, tmp, dstdir, dst, manifest, result, chk, envs,
                   faults, overwrites, stored>>

\* lines 117-118 with dst_dir in the place of the staging directory
RestoreMkdirInPlace ==
    /\ pc = "r_dirs"
    /\ dst' = Put(dst, Head(queue)[1], DirNode([perm |-> FreshPerm, mtime |-> Now]))
    /\ Advance("r_dirs", "r_files")
    /\ UNCHANGED <<storage_meta, other, quiet, src, blobs, tmpdir, tmp, dstdir, spec, manifest, result,
                   chk, calls, envs, faults, prev, mkdtemps, overwrites, stored>>

\* lines 117-118 with the recorded mode and mtime applied as soon as the
\* directory is made
RestoreMkdirWithMeta ==
    /\ pc = "r_dirs"
    /\ LET rel_path == Head(queue)[1]
           made == TouchDir(Put(tmp, rel_path,
                                DirNode([perm |-> FreshPerm, mtime |-> Now])),
                            Parent(rel_path))
       IN  tmp' = _restore_metadata(made, Head(queue)[2].meta, rel_path)
    /\ Advance("r_dirs", "r_files")
    /\ UNCHANGED <<storage_meta, other, quiet, src, blobs, tmpdir, dstdir, dst,
                   spec, manifest, result, chk, calls, envs, faults, prev,
                   mkdtemps, overwrites, stored>>

\* lines 117-118
RestoreMkdir ==
    /\ pc = "r_dirs"
    /\ LET rel_path == Head(queue)[1]
       IN  tmp' = IF Exists(tmp, rel_path) THEN tmp
                  ELSE TouchDir(Put(tmp, rel_path,
                                    DirNode([perm |-> FreshPerm, mtime |-> Now])),
                                Parent(rel_path))
    /\ Advance("r_dirs", "r_files")
    /\ UNCHANGED <<storage_meta, other, quiet, src, blobs, tmpdir, dstdir, dst, spec, manifest, result, chk,
                   calls, envs, faults, prev, mkdtemps, overwrites, stored>>

\* lines 121-123 with shutil.move in the place of shutil.copy2
RestoreMovesBlob ==
    /\ pc = "r_files"
    /\ blob_exists(_get_storage_path(Head(queue)[2]))
    /\ LET rel_path == Head(queue)[1]
           src_path == _get_storage_path(Head(queue)[2])
       IN  /\ tmp' = TouchDir(Put(tmp, rel_path, copy2(blobs[src_path])),
                              Parent(rel_path))
           /\ blobs' = [blobs EXCEPT ![src_path] = Absent]
    /\ Advance("r_files", "r_meta")
    /\ UNCHANGED <<storage_meta, other, quiet, src, tmpdir, dstdir, dst, spec,
                   manifest, result, chk, calls, envs, faults, prev, mkdtemps,
                   overwrites, stored>>

\* lines 121-123, the blob is there
RestoreCopy ==
    /\ pc = "r_files"
    /\ blob_exists(_get_storage_path(Head(queue)[2]))
    /\ LET rel_path == Head(queue)[1]
           src_path == _get_storage_path(Head(queue)[2])
       IN  tmp' = TouchDir(Put(tmp, rel_path, copy2(blobs[src_path])),
                           Parent(rel_path))
    /\ Advance("r_files", "r_meta")
    /\ UNCHANGED <<storage_meta, other, quiet, src, blobs, tmpdir, dstdir, dst, spec, manifest, result, chk,
                   calls, envs, faults, prev, mkdtemps, overwrites, stored>>

\* line 123 with no file at the address: shutil.copy2 raises
RestoreCopyMissing ==
    /\ pc = "r_files"
    /\ ~blob_exists(_get_storage_path(Head(queue)[2]))
    /\ Cleanup
    /\ Ends("restore", "FileNotFoundError")
    /\ UNCHANGED <<storage_meta, other, src, blobs, dstdir, dst, spec, manifest, chk, calls, envs,
                   faults, prev, mkdtemps, overwrites, stored>>

\* lines 126-127 and 109: set_mode on the next node of the third loop
RestoreSetMode ==
    /\ pc = "r_meta"
    /\ tmp' = set_mode(tmp, Head(queue)[1], Head(queue)[2].meta.mode)
    /\ pc' = "r_mtime"
    /\ UNCHANGED <<storage_meta, other, quiet, src, blobs, tmpdir, dstdir, dst,
                   queue, spec, manifest, result, chk, calls, envs, faults, prev,
                   mkdtemps, overwrites, stored>>

\* line 110 left out: a staged file keeps the mtime shutil.copy2 gave it,
\* which is the blob's
RestoreKeepsCopiedMtime ==
    /\ pc = "r_mtime"
    /\ tmp' = tmp
    /\ Advance("r_meta", "r_verify")
    /\ UNCHANGED <<storage_meta, other, quiet, src, blobs, tmpdir, dstdir, dst,
                   spec, manifest, result, chk, calls, envs, faults, prev,
                   mkdtemps, overwrites, stored>>

\* line 110: set_mtime_ns on the same node; then the loop goes on
RestoreSetMtime ==
    /\ pc = "r_mtime"
    /\ tmp' = set_mtime_ns(tmp, Head(queue)[1], Head(queue)[2].meta.mtime_ns)
    /\ Advance("r_meta", "r_verify")
    /\ UNCHANGED <<storage_meta, other, quiet, src, blobs, tmpdir, dstdir, dst, spec, manifest, result, chk,
                   calls, envs, faults, prev, mkdtemps, overwrites, stored>>

\* lines 129-132, the staged tree fulfils the spec
RestoreVerified ==
    /\ pc = "r_verify"
    /\ check_fulfils_spec(tmp, spec).result = "ok"
    /\ chk' = check_fulfils_spec(tmp, spec)
    /\ pc' = "r_rename"
    /\ UNCHANGED <<storage_meta, other, quiet, src, blobs, tmpdir, tmp, dstdir, dst, queue, spec, manifest,
                   result, calls, envs, faults, prev, mkdtemps, overwrites, stored>>

\* lines 131-132 with the exception swallowed: the call goes on to line 151
RestoreRejectedSwallowed ==
    /\ pc = "r_verify"
    /\ check_fulfils_spec(tmp, spec).result # "ok"
    /\ chk' = check_fulfils_spec(tmp, spec)
    /\ pc' = "r_rename"
    /\ UNCHANGED <<storage_meta, other, quiet, src, blobs, tmpdir, tmp, dstdir, dst, queue, spec,
                   manifest, result, calls, envs, faults, prev, mkdtemps,
                   overwrites, stored>>

\* lines 131-132: DifferentSpec becomes RestoreError
RestoreRejected ==
    /\ pc = "r_verify"
    /\ check_fulfils_spec(tmp, spec).result # "ok"
    /\ chk' = check_fulfils_spec(tmp, spec)
    /\ Cleanup
    /\ Ends("restore", "RestoreError")
    /\ UNCHANGED <<storage_meta, other, src, blobs, dstdir, dst, spec, manifest, calls, envs, faults,
                   prev, mkdtemps, overwrites, stored>>

\* line 151: the staged root is renamed to dst_path
RestoreRename ==
    /\ pc = "r_rename"
    /\ dstdir.exists
    /\ ~Exists(dst, RootPath)
    /\ dst' = tmp
    /\ dstdir' = [dstdir EXCEPT !.mtime = Now]
    /\ Cleanup
    /\ Ends("restore", "ok")
    /\ UNCHANGED <<storage_meta, other, src, blobs, spec, manifest, chk, calls, envs, faults, prev,
                   mkdtemps, overwrites, stored>>

\* line 151 when dst_dir does not exist: os.rename raises
RestoreRenameNoDir ==
    /\ pc = "r_rename"
    /\ ~dstdir.exists
    /\ Cleanup
    /\ Ends("restore", "FileNotFoundError")
    /\ UNCHANGED <<storage_meta, other, src, blobs, dstdir, dst, spec, manifest, chk, calls, envs,
                   faults, prev, mkdtemps, overwrites, stored>>

(***************************************************************************)
(* An I/O failure (OSError) in the step the call in progress is about to   *)
(* make: the exception leaves the with block, which removes the staging    *)
(* directory (storage.py lines 91 and 147).                                *)
(***************************************************************************)
\* an exception leaves the call and the staging directory stays behind (an
\* explicit cleanup call that the error path skips)
FaultLeavesStaging ==
    /\ pc # "idle"
    /\ faults < MaxFaults
    /\ faults' = faults + 1
    /\ queue' = << >>
    /\ pc' = "idle"
    /\ Ends(IF pc \in {"s_read", "s_files", "s_move"} THEN "store" ELSE "restore",
            "OSError")
    /\ UNCHANGED <<storage_meta, other, src, blobs, tmpdir, tmp, dstdir, dst, spec,
                   manifest, chk, calls, envs, prev, mkdtemps, overwrites, stored>>
Fault ==
    /\ pc # "idle"
    /\ faults < MaxFaults
    /\ faults' = faults + 1
    /\ Cleanup
    /\ Ends(IF pc \in {"s_read", "s_files", "s_move"} THEN "store" ELSE "restore",
            "OSError")
    /\ UNCHANGED <<storage_meta, other, src, blobs, dstdir, dst, spec, manifest, chk, calls, envs,
                   prev, mkdtemps, overwrites, stored>>

(***************************************************************************)
(* The environment, between calls: what the caller or another program does *)
(* to the source, to the destination and to the blob files.                *)
(***************************************************************************)
MayIntervene(kind) ==
    /\ pc = "idle"
    /\ kind \notin envs
    /\ Cardinality(envs) < MaxEnv
    /\ envs' = envs \cup {kind}
    /\ quiet' = FALSE

\* a file of the source gets other bytes, or a node other metadata, or the
\* source is deleted (src_path no longer exists)
EditSrc ==
    /\ MayIntervene("src")
    /\ \/ \E p \in AllPaths :
            /\ IsFile(src, p)
            /\ \E b \in SrcContents \ {src[p].bytes} :
                  src' = [src EXCEPT ![p].bytes = b]
       \/ \E p \in AllPaths, m \in Metas :
            /\ Exists(src, p)
            /\ m.mtime # src[p].mtime
            /\ src' = [src EXCEPT ![p].perm = m.perm, ![p].mtime = m.mtime]
       \/ src' = EmptyTree
    /\ UNCHANGED <<storage_meta, other, blobs, tmpdir, tmp, dstdir, dst, pc, queue, spec, manifest,
                   result, chk, calls, faults, prev, mkdtemps, overwrites, stored>>

\* the destination tree is changed in one place; a change of a directory's
\* entries either leaves the directory's new mtime or sets the old one back
TamperDst ==
    /\ MayIntervene("dst")
    /\ dstdir.exists
    /\ \/ \E p \in AllPaths, b \in Contents :
            /\ IsFile(dst, p)
            /\ b # dst[p].bytes
            /\ dst' = [dst EXCEPT ![p].bytes = b]
       \/ \E p \in AllPaths, m \in Metas :
            /\ Exists(dst, p)
            /\ dst[p].kind # "symlink"
            /\ <<m.perm, m.mtime>> # <<dst[p].perm, dst[p].mtime>>
            /\ dst' = [dst EXCEPT ![p].perm = m.perm, ![p].mtime = m.mtime]
       \/ \E p \in AllPaths, f \in FileNodes, keep \in BOOLEAN :
            /\ ~Exists(dst, p)
            /\ Len(p) > 1
            /\ IsDir(dst, Parent(p))
            /\ dst' = IF keep THEN Put(dst, p, f)
                      ELSE TouchDir(Put(dst, p, f), Parent(p))
       \/ \E p \in AllPaths, keep \in BOOLEAN :
            /\ Exists(dst, p)
            /\ Len(p) > 1
            /\ Children(dst, p) = {}
            /\ dst' = IF keep THEN Put(dst, p, Absent)
                      ELSE TouchDir(Put(dst, p, Absent), Parent(p))
       \/ \E n \in FileNodes \cup DirNodes \cup {SymlinkNode} :
            /\ ~Exists(dst, RootPath)
            /\ dst' = Put(EmptyTree, RootPath, n)
       \/ /\ Exists(dst, RootPath)
          /\ dst[RootPath].kind # "symlink"
          /\ dst' = Put(EmptyTree, RootPath, SymlinkNode)
    /\ UNCHANGED <<storage_meta, other, src, blobs, tmpdir, tmp, dstdir, pc, queue, spec, manifest,
                   result, chk, calls, faults, prev, mkdtemps, overwrites, stored>>

\* dst_dir is not there (the caller passed a path that does not exist)
NoDstDir ==
    /\ MayIntervene("dstdir")
    /\ dstdir.exists
    /\ ~Exists(dst, RootPath)
    /\ dstdir' = [exists |-> FALSE, mtime |-> 0]
    /\ UNCHANGED <<storage_meta, other, src, blobs, tmpdir, tmp, dst, pc, queue, spec, manifest,
                   result, chk, calls, faults, prev, mkdtemps, overwrites, stored>>

\* the bytes of a blob file change (bit rot, or a write by another program)
CorruptBlob ==
    /\ MayIntervene("corrupt")
    /\ \E a \in Addresses, b \in Contents :
        /\ blobs[a].kind # "absent"
        /\ b # blobs[a].bytes
        /\ blobs' = [blobs EXCEPT ![a].bytes = b]
    /\ UNCHANGED <<storage_meta, other, src, tmpdir, tmp, dstdir, dst, pc, queue, spec, manifest,
                   result, chk, calls, faults, prev, mkdtemps, overwrites, stored>>

\* a blob file is deleted (garbage collection outside this code)
RemoveBlob ==
    /\ MayIntervene("remove")
    /\ \E a \in Addresses :
        /\ blobs[a].kind # "absent"
        /\ blobs' = [blobs EXCEPT ![a] = Absent]
    /\ UNCHANGED <<storage_meta, other, src, tmpdir, tmp, dstdir, dst, pc, queue, spec, manifest,
                   result, chk, calls, faults, prev, mkdtemps, overwrites, stored>>

Next ==
    \/ StoreCopy
    \/ StoreUnsupported
    \/ StoreReadSpec
    \/ StoreSkip
    \/ StoreAbsent
    \/ StoreMove
    \/ StoreReturn
    \/ RestoreExisting
    \/ RestoreBegin
    \/ RestoreMkdir
    \/ RestoreCopy
    \/ RestoreCopyMissing
    \/ RestoreSetMode
    \/ RestoreSetMtime
    \/ RestoreVerified
    \/ RestoreRejected
    \/ RestoreRename
    \/ RestoreRenameNoDir
    \/ Fault
    \/ EditSrc
    \/ TamperDst
    \/ NoDstDir
    \/ CorruptBlob
    \/ RemoveBlob

Spec == Init /\ [][Next]_vars

(***************************************************************************)
(* Two processes calling store and restore on one storage root and one     *)
(* dst_dir.  The process that is not running is kept in other; Switch      *)
(* hands the processor over between any two filesystem operations.  What   *)
(* os.rename does when its destination exists depends on the platform: on  *)
(* POSIX a file replaces a file and a directory an empty directory, and     *)
(* anything else raises OSError; on Windows it always raises               *)
(* FileExistsError.                                                        *)
(***************************************************************************)
Switch ==
    /\ pc # "idle" \/ other.pc # "idle"
    /\ pc' = other.pc
    /\ queue' = other.queue
    /\ spec' = other.spec
    /\ tmpdir' = other.tmpdir
    /\ tmp' = other.tmp
    /\ result' = other.result
    /\ other' = Proc(pc, queue, spec, tmpdir, tmp, result)
    /\ UNCHANGED <<src, blobs, dstdir, dst, manifest, chk, calls, envs, faults,
                   prev, mkdtemps, overwrites, stored, quiet, storage_meta>>

\* line 104 when another process has put a blob at the address since
\* line 98, where os.rename does not replace: FileExistsError
StoreMoveRefused ==
    /\ pc = "s_move"
    /\ blob_exists(_get_storage_path(Head(queue)[2]))
    /\ Cleanup
    /\ Ends("store", "FileExistsError")
    /\ UNCHANGED <<storage_meta, other, src, blobs, dstdir, dst, spec, manifest,
                   chk, calls, envs, faults, prev, mkdtemps, overwrites, stored>>

\* os.rename(tmp_path, dst_path) replaces what is at dst_path
Replaceable(staged, there) ==
    \/ IsFile(staged, RootPath) /\ IsFile(there, RootPath)
    \/ /\ IsDir(staged, RootPath)
       /\ IsDir(there, RootPath)
       /\ Children(there, RootPath) = {}

\* line 151 when another process has renamed its tree to dst_path since
\* line 138, where os.rename replaces it
RestoreRenameOnto ==
    /\ pc = "r_rename"
    /\ dstdir.exists
    /\ Exists(dst, RootPath)
    /\ Replaceable(tmp, dst)
    /\ dst' = tmp
    /\ dstdir' = [dstdir EXCEPT !.mtime = Now]
    /\ Cleanup
    /\ Ends("restore", "ok")
    /\ UNCHANGED <<storage_meta, other, src, blobs, spec, manifest, chk, calls,
                   envs, faults, prev, mkdtemps, overwrites, stored>>

\* line 151 refused, and the call starts to clear dst_path to rename again
RestoreRenameClears ==
    /\ pc = "r_rename"
    /\ dstdir.exists
    /\ Exists(dst, RootPath)
    /\ \E p \in AllPaths :
        /\ Exists(dst, p)
        /\ Children(dst, p) = {}
        /\ dst' = TouchDir(Put(dst, p, Absent), Parent(p))
    /\ UNCHANGED <<storage_meta, other, quiet, src, blobs, tmpdir, tmp, dstdir,
                   pc, queue, spec, manifest, result, chk, calls, envs, faults,
                   prev, mkdtemps, overwrites, stored>>

\* line 151 when another process has renamed its tree to dst_path since
\* line 138, where os.rename raises (a non-empty directory; Windows)
RestoreRenameRefused ==
    /\ pc = "r_rename"
    /\ dstdir.exists
    /\ Exists(dst, RootPath)
    /\ Cleanup
    /\ Ends("restore", "OSError")
    /\ UNCHANGED <<storage_meta, other, src, blobs, dstdir, dst, spec, manifest,
                   chk, calls, envs, faults, prev, mkdtemps, overwrites, stored>>

NextConcurrent ==
    \/ StoreCopy
    \/ StoreReadSpec
    \/ StoreSkip
    \/ StoreAbsent
    \/ StoreMove
    \/ StoreMoveRefused
    \/ StoreReturn
    \/ RestoreExisting
    \/ RestoreBegin
    \/ RestoreMkdir
    \/ RestoreCopy
    \/ RestoreSetMode
    \/ RestoreSetMtime
    \/ RestoreVerified
    \/ RestoreRename
    \/ RestoreRenameOnto
    \/ RestoreRenameRefused
    \/ Switch

SpecConcurrent == Init /\ [][NextConcurrent]_vars

(***************************************************************************)
(* Stores into a storage opened on a root whose configuration record holds *)
(* any of the hash names (Storage.create(path, hash_name), then            *)
(* Storage(path)), with edits of the source between the calls.             *)
(***************************************************************************)
InitOpen == InitWith(HashNames)

NextOpen ==
    \/ StoreCopy
    \/ StoreUnsupported
    \/ StoreReadSpec
    \/ StoreSkip
    \/ StoreAbsent
    \/ StoreMove
    \/ StoreReturn
    \/ EditSrc

SpecOpen == InitOpen /\ [][NextOpen]_vars

(***************************************************************************)
(* specs.py called on any path: read_spec of a path that may be, or may    *)
(* hold, a symbolic link, a special file (device, socket, FIFO) or nothing, *)
(* and iter_paths_and_specs of the spec it returns.  pathlib's is_file,     *)
(* is_dir and os.stat follow symbolic links; a link node carries what stat *)
(* reports for its target, and the entries of a linked directory are the   *)
(* entries below the link's path.                                          *)
(***************************************************************************)
LinkToFile(b, m) ==
    [kind |-> "link_file", bytes |-> b, perm |-> m.perm, mtime |-> m.mtime]
LinkToDir(m) == [kind |-> "link_dir", bytes |-> 0, perm |-> m.perm, mtime |-> m.mtime]
DanglingLink == [kind |-> "link_dangling", bytes |-> 0, perm |-> 0, mtime |-> 0]
SpecialNode(m) == [kind |-> "special", bytes |-> 0, perm |-> m.perm, mtime |-> m.mtime]

is_file(t, p) == t[p].kind \in {"file", "link_file"}
is_dir(t, p) == t[p].kind \in {"dir", "link_dir"}
\* os.stat(path) raises FileNotFoundError
stat_fails(t, p) == t[p].kind \in {"absent", "link_dangling"}

\* read_meta with the links followed (path.resolve(), os.stat)
read_meta_any(t, p) ==
    IF is_file(t, p) THEN FileMeta(32768 + t[p].perm, t[p].mtime, SizeOf(t[p].bytes))
    ELSE IF is_dir(t, p) THEN DirMeta(16384 + t[p].perm, t[p].mtime)
    ELSE NoMeta

Returned(s) == [raised |-> "ok", spec |-> s]
Raised(e) == [raised |-> e, spec |-> NoSpec]

\* the list comprehension of lines 133-136: the first child whose read_spec
\* raises ends it
collect(outcomes) ==
    LET bad == {i \in 1 .. Len(outcomes) : outcomes[i].raised # "ok"}
    IN  IF bad # {} THEN Raised(outcomes[Min(bad)].raised)
        ELSE Returned([i \in 1 .. Len(outcomes) |-> outcomes[i].spec])

RECURSIVE read_spec_any(_, _, _)
\* what read_spec(path, hash_name) can do on any path: the spec it returns or
\* the exception it raises, for each enumeration order of each directory
read_spec_any(t, p, hn) ==
    IF stat_fails(t, p) THEN {Raised("FileNotFoundError")}
    ELSE IF is_dir(t, p)
    THEN UNION {
            {IF collect(os).raised # "ok" THEN collect(os)
             ELSE Returned(DirSpec(get_apparent_name(p), collect(os).spec,
                                   read_meta_any(t, p))) :
                os \in SeqProduct([i \in 1 .. Len(order) |->
                                     read_spec_any(t, order[i], hn)])} :
            order \in Orderings(Children(t, p))}
    ELSE IF is_file(t, p)
    THEN {Returned(FileSpec(get_apparent_name(p), hn,
                            get_file_hexdigest(t[p].bytes, hn),
                            read_meta_any(t, p)))}
    ELSE {Raised("ValueError")}

\* the paths read_spec is called on: trees whose nodes are regular files,
\* directories, links, special files, or missing
OneMeta == CHOOSE m \in Metas : TRUE
AnyLeaves ==
    LeafChoices \cup {LinkToFile(b, OneMeta) : b \in SrcContents}
                \cup {DanglingLink, SpecialNode(OneMeta)}
AnyDirs == DirNodes \cup {LinkToDir(OneMeta)}
AnyTrees ==
    {Put(EmptyTree, RootPath, f) : f \in AnyLeaves}
    \cup {t \in [AllPaths -> AnyLeaves \cup AnyDirs] :
            /\ t[RootPath] \in AnyDirs
            /\ t[<<"r", "y">>] \in AnyLeaves
            /\ t[<<"r", "x", "z">>] \in AnyLeaves
            /\ Exists(t, <<"r", "x", "z">>) => t[<<"r", "x">>] \in AnyDirs}

\* the values of the keyword arguments dirs and files
IterFlags == {"dirs,files", "dirs", "files", "neither"}

InitPure ==
    /\ src \in AnyTrees
    /\ storage_meta \in [hash_name : {DEFAULT_HASH}]
    /\ other = IdleProc
    /\ blobs = NoBlobs
    /\ tmpdir = FALSE
    /\ tmp = EmptyTree
    /\ dstdir = [exists |-> TRUE, mtime |-> 1]
    /\ dst = EmptyTree
    /\ pc = "idle"
    /\ queue = << >>
    /\ spec = NoSpec
    /\ manifest = NoSpec
    /\ result = [op |-> "none", outcome |-> "none"]
    /\ chk = NoCheck
    /\ calls = 0
    /\ envs = {}
    /\ faults = 0
    /\ prev = [src |-> src, dst |-> EmptyTree, dstdir |-> dstdir,
               blobs |-> NoBlobs, manifest |-> NoSpec, mkdtemps |-> 0]
    /\ mkdtemps = 0
    /\ overwrites = 0
    /\ stored = {}
    /\ quiet = TRUE

\* a call of read_spec(path, hash_name), specs.py lines 111-138
ReadSpecCall ==
    /\ result.op = "none"
    /\ \E o \in read_spec_any(src, RootPath, hash_name) :
        /\ spec' = o.spec
        /\ result' = [op |-> "read_spec", outcome |-> o.raised]
    /\ UNCHANGED <<src, blobs, tmpdir, tmp, dstdir, dst, pc, queue, manifest,
                   chk, calls, envs, faults, prev, mkdtemps, overwrites, stored,
                   quiet, storage_meta, other>>

\* a call of iter_paths_and_specs(spec, dirs, files), specs.py lines 71-77,
\* consumed to its end
IterCall ==
    /\ result = [op |-> "read_spec", outcome |-> "ok"]
    /\ \E f \in IterFlags :
        /\ queue' = iter_paths_and_specs(spec, f \in {"dirs,files", "dirs"},
                                         f \in {"dirs,files", "files"})
        /\ result' = [op |-> "iter_paths_and_specs", outcome |-> f]
    /\ UNCHANGED <<src, blobs, tmpdir, tmp, dstdir, dst, pc, spec, manifest,
                   chk, calls, envs, faults, prev, mkdtemps, overwrites, stored,
                   quiet, storage_meta, other>>

NextPure ==
    \/ ReadSpecCall
    \/ IterCall

SpecPure == InitPure /\ [][NextPure]_vars

(***************************************************************************)
(* Properties.                                                             *)
(***************************************************************************)
RestorePcs == {"r_dirs", "r_files", "r_meta", "r_mtime", "r_verify", "r_rename"}
StorePcs == {"s_read", "s_files", "s_move"}

\* the last call that ended was a restore that found nothing at dst_path
\* and renamed its staged tree there, and nothing intervened since
RestoredFresh ==
    /\ pc = "idle"
    /\ result = [op |-> "restore", outcome |-> "ok"]
    /\ ~Exists(prev.dst, RootPath)
    /\ quiet

\* C1 (round trip): after store(T) and a restore of the returned manifest
\* into a destination where dst_dir/manifest.name did not exist, the tree at
\* dst_dir/manifest.name has the names and nesting of T and, node by node,
\* T's kind, bytes, mode and mtime.  (T is src: the source was not edited
\* between the calls.)
RoundTrip ==
    (RestoredFresh /\ "src" \notin envs) =>
        \A p \in AllPaths :
            /\ dst[p].kind = src[p].kind
            /\ dst[p].bytes = src[p].bytes
            /\ dst[p].perm = src[p].perm
            /\ dst[p].mtime = src[p].mtime

\* a round trip of a directory with a nested directory and two files of
\* identical bytes and different metadata
RoundTripWitness ==
    /\ RestoredFresh
    /\ "src" \notin envs
    /\ IsDir(src, <<"r", "x">>)
    /\ IsFile(src, <<"r", "x", "z">>)
    /\ IsFile(src, <<"r", "y">>)
    /\ src[<<"r", "x", "z">>].bytes = src[<<"r", "y">>].bytes
    /\ src[<<"r", "x", "z">>].mtime # src[<<"r", "y">>].mtime
    /\ dst = src

\* the tree t holds, at the place of every node of root_spec, a node of the
\* same kind, name and metadata and, for a file, of the recorded digest
Fulfils(t, root_spec) ==
    LET all == iter_paths_and_specs(root_spec, TRUE, TRUE)
    IN  \A i \in 1 .. Len(all) :
            LET q == all[i][1]
                n == all[i][2]
            IN  /\ Exists(t, q)
                /\ t[q].kind = (IF n.type = "FileSpec" THEN "file" ELSE "dir")
                /\ StMode(t[q]) = n.meta.mode
                /\ t[q].mtime = n.meta.mtime_ns
                /\ n.type = "FileSpec" =>
                    /\ SizeOf(t[q].bytes) = n.meta.size
                    /\ get_file_hexdigest(t[q].bytes, n.hash_name) = n.hexdigest

\* the paths root_spec lists
Listed(root_spec) ==
    LET all == iter_paths_and_specs(root_spec, TRUE, TRUE)
    IN  {all[i][1] : i \in 1 .. Len(all)}

\* t fulfils root_spec and holds nothing else
Equivalent(t, root_spec) ==
    /\ Fulfils(t, root_spec)
    /\ \A q \in AllPaths : Exists(t, q) => q \in Listed(root_spec)

\* some file root_spec lists is not in t with the recorded bytes
FileContentDiffers(t, root_spec) ==
    LET fls == iter_paths_and_specs(root_spec, FALSE, TRUE)
    IN  \E j \in 1 .. Len(fls) :
            \/ ~IsFile(t, fls[j][1])
            \/ get_file_hexdigest(t[fls[j][1]].bytes, fls[j][2].hash_name)
                 # fls[j][2].hexdigest

\* this step is a whole call of restore(manifest, dst_dir) that found
\* something at dst_path (lines 138-145)
CallOnExisting ==
    pc = "idle" /\ pc' = "idle" /\ calls' = calls + 1 /\ spec' # NoSpec

\* what is at dst_path is a regular file or a directory
DstIsTree == dst[RootPath].kind \in {"file", "dir"}

\* C2 (collision safety): a restore that finds at dst_dir/spec.name a file
\* or directory tree in which some file the spec lists has other bytes (or is
\* no file) raises CollisionError, and the tree and dst_dir are the same
\* after the call as before it.
CollisionSafety ==
    [][(CallOnExisting /\ DstIsTree /\ FileContentDiffers(dst, manifest)) =>
            /\ result'.outcome = "CollisionError"
            /\ dst' = dst
            /\ dstdir' = dstdir]_vars

\* a collision found by the digest alone: every node passed the metadata
\* loop and a file's bytes differ
CollisionWitness ==
    /\ pc = "idle"
    /\ result = [op |-> "restore", outcome |-> "CollisionError"]
    /\ quiet
    /\ dst = prev.dst
    /\ Len(chk.trace) > 0
    /\ chk.trace[Len(chk.trace)][1] = "hash"
    /\ FileContentDiffers(dst, spec)

\* C3 (states the claim): a restore that finds a file or directory tree at
\* dst_dir/spec.name succeeds if the tree is equivalent to the spec (every
\* listed node there with its kind, name, metadata and content, and no entry
\* the spec does not list) and raises CollisionError otherwise.
SuccessOnlyIfEquivalent ==
    [][(CallOnExisting /\ DstIsTree) =>
            result'.outcome = (IF Equivalent(dst, manifest)
                               THEN "ok" ELSE "CollisionError")]_vars

\* what the code does decide: entries the spec does not list are not looked at
SuccessIffFulfils ==
    [][(CallOnExisting /\ DstIsTree) =>
            result'.outcome = (IF Fulfils(dst, manifest)
                               THEN "ok" ELSE "CollisionError")]_vars

\* C4 (atomic visibility): while a restore into an absent destination is in
\* progress, nothing is at dst_dir/spec.name; a step of the call makes
\* something appear there only if it is the rename of line 151, made after
\* the verification passed, and what appears is the whole staged tree, which
\* fulfils the spec; every other step of the call (a fault at any position
\* included) leaves dst_dir/spec.name absent and dst_dir as it was.
AtomicVisibility ==
    [][(pc \in RestorePcs) =>
            /\ ~Exists(dst, RootPath)
            /\ IF Exists(dst', RootPath)
               THEN /\ pc = "r_rename"
                    /\ chk.result = "ok"
                    /\ dst' = tmp
                    /\ Equivalent(dst', spec)
               ELSE (dst' = dst /\ dstdir' = dstdir)]_vars

\* a fault struck after the staged tree passed verification and before the
\* rename: the destination is absent, dst_dir is as it was
FaultBeforeCommit ==
    /\ pc = "idle"
    /\ result = [op |-> "restore", outcome |-> "OSError"]
    /\ quiet
    /\ chk.result = "ok"
    /\ spec.type = "DirSpec"
    /\ Len(spec.contents) = 2
    /\ dstdir = prev.dstdir
    /\ dstdir.exists
    /\ ~Exists(prev.dst, RootPath)
    /\ ~Exists(dst, RootPath)

\* this step starts a call of restore(manifest, dst_dir)
RestoreCallStarts == pc = "idle" /\ calls' = calls + 1 /\ spec' # NoSpec

\* C5 (restore idempotence): a restore(spec, D) that follows a successful
\* restore(spec, D), with nothing intervening, succeeds within the same step
\* and changes nothing: the destination tree, dst_dir, the blobs, and no
\* staging directory is created.
RestoreIdempotence ==
    [][(/\ RestoreCallStarts
        /\ quiet
        /\ result = [op |-> "restore", outcome |-> "ok"]
        /\ manifest = spec) =>
            /\ pc' = "idle"
            /\ result' = [op |-> "restore", outcome |-> "ok"]
            /\ dst' = dst
            /\ dstdir' = dstdir
            /\ blobs' = blobs
            /\ mkdtemps' = mkdtemps
            /\ tmpdir' = FALSE
            /\ tmp' = EmptyTree]_vars

\* store, a restore that renamed a nested tree into place, and a second
\* restore of the same spec that found it there
RestoredTwice ==
    /\ pc = "idle"
    /\ result = [op |-> "restore", outcome |-> "ok"]
    /\ calls = 3
    /\ mkdtemps = 2
    /\ envs = {}
    /\ faults = 0
    /\ Exists(prev.dst, RootPath)
    /\ dst = prev.dst
    /\ IsFile(dst, <<"r", "x", "z">>)
    /\ IsFile(dst, <<"r", "y">>)

BlobsPresent(bl) == {a \in Addresses : bl[a].kind # "absent"}

\* this step belongs to a call of store
StoreStep ==
    pc \in StorePcs \/ (pc = "idle" /\ calls' = calls + 1 /\ spec' = NoSpec)

\* C6 (dedup idempotence): in every state, as long as no blob file was
\* deleted from outside, there are as many blobs as distinct contents among
\* the files store's loop has handled; no rename ever lands on an existing
\* blob; and no step of a store changes a blob that exists (so a second
\* store of the same input leaves the blobs as they were).
DedupIdempotence ==
    [][/\ ("remove" \notin envs') =>
            Cardinality(BlobsPresent(blobs')) = Cardinality(stored')
       /\ overwrites' = 0
       /\ StoreStep => \A a \in BlobsPresent(blobs) : blobs'[a] = blobs[a]]_vars

\* a second store of a tree whose two files have the same bytes: one blob,
\* the same before and after the call
DedupWitness ==
    /\ pc = "idle"
    /\ result = [op |-> "store", outcome |-> "ok"]
    /\ calls >= 2
    /\ envs = {}
    /\ faults = 0
    /\ prev.manifest # NoSpec
    /\ IsFile(src, <<"r", "x", "z">>)
    /\ IsFile(src, <<"r", "y">>)
    /\ src[<<"r", "x", "z">>].bytes = src[<<"r", "y">>].bytes
    /\ Cardinality(BlobsPresent(blobs)) = 1
    /\ blobs = prev.blobs

\* C7 (states the claim): a store that follows an earlier store of the same,
\* unchanged source returns a manifest equal to the earlier one, directories
\* comparing their contents sequences in order.
ManifestDeterministic ==
    (/\ pc = "idle"
     /\ result = [op |-> "store", outcome |-> "ok"]
     /\ prev.manifest # NoSpec
     /\ "src" \notin envs)
        => manifest = prev.manifest

\* the pairs of a spec's traversal without the order of the directories'
\* contents: files with their spec, directories with name and metadata
Unordered(root_spec) ==
    LET all == iter_paths_and_specs(root_spec, TRUE, TRUE)
    IN  {<<all[i][1],
           IF all[i][2].type = "FileSpec" THEN all[i][2]
           ELSE [all[i][2] EXCEPT !.contents = << >>]>> : i \in 1 .. Len(all)}

\* what the code does guarantee: the two manifests agree up to the order of
\* the contents sequences
ManifestEqualUpToOrder ==
    (/\ pc = "idle"
     /\ result = [op |-> "store", outcome |-> "ok"]
     /\ prev.manifest # NoSpec
     /\ "src" \notin envs)
        => Unordered(manifest) = Unordered(prev.manifest)

\* C8 (self-verification): when the staged tree does not fulfil the spec at
\* the verification of lines 129-132, the call ends there with RestoreError
\* (or with the OSError of an injected fault), dst_dir/spec.name stays
\* absent and the staging directory is removed.
SelfVerification ==
    [][(pc = "r_verify" /\ ~Fulfils(tmp, spec)) =>
            /\ pc' = "idle"
            /\ result'.op = "restore"
            /\ result'.outcome =
                 (IF faults' = faults THEN "RestoreError" ELSE "OSError")
            /\ dst' = dst
            /\ ~Exists(dst', RootPath)
            /\ tmpdir' = FALSE
            /\ tmp' = EmptyTree]_vars

\* a blob whose bytes no longer hash to its address (same size) was staged,
\* and the restore ended with RestoreError
SelfVerificationWitness ==
    /\ pc = "idle"
    /\ result = [op |-> "restore", outcome |-> "RestoreError"]
    /\ envs = {"corrupt"}
    /\ chk.result = "DifferentSpec"
    /\ chk.trace[Len(chk.trace)][1] = "hash"
    /\ ~Exists(dst, RootPath)
    /\ tmpdir = FALSE

\* C9 (states the claim): a restore ends with success, CollisionError or
\* RestoreError and nothing else (the OSError of an injected I/O fault set
\* aside).
RestoreOutcomes ==
    result.op = "restore" =>
        result.outcome \in {"ok", "CollisionError", "RestoreError"}
                           \cup (IF faults > 0 THEN {"OSError"} ELSE {})

\* node n of a spec is not at q in t, or is there with other metadata
MetaDiffers(t, q, n) ==
    \/ ~Exists(t, q)
    \/ t[q].kind # (IF n.type = "FileSpec" THEN "file" ELSE "dir")
    \/ StMode(t[q]) # n.meta.mode
    \/ t[q].mtime # n.meta.mtime_ns
    \/ (n.type = "FileSpec" /\ SizeOf(t[q].bytes) # n.meta.size)

\* the result r of check_fulfils_spec on tree t (no symbolic link) and
\* root_spec is fail-fast
FailFast(t, root_spec, r) ==
    LET all == iter_paths_and_specs(root_spec, TRUE, TRUE)
        bad == {i \in 1 .. Len(all) : MetaDiffers(t, all[i][1], all[i][2])}
        ismeta(e) == e[1] = "meta"
        ishash(e) == e[1] = "hash"
        metas == SelectSeq(r.trace, ismeta)
        hashes == SelectSeq(r.trace, ishash)
    IN  /\ r.trace = metas \o hashes
        /\ \A i \in 1 .. Len(metas) : i <= Len(all) /\ metas[i][2] = all[i][1]
        /\ bad # {} =>
            /\ r.result = "DifferentSpec"
            /\ r.at = all[Min(bad)][1]
            /\ Len(metas) = Min(bad)
            /\ hashes = << >>
        /\ hashes # << >> => (bad = {} /\ Len(metas) = Len(all))

\* C10 (fail-fast verification): every run of check_fulfils_spec on a file
\* or directory (by restore on an existing destination, and on the staged
\* tree) reads existence and metadata of the spec's nodes in pre-order before
\* it hashes any file; if some node is missing or has other metadata (kind,
\* mode, mtime, size of a file) it raises DifferentSpec for the first such
\* node in pre-order having hashed nothing; and it hashes only after every
\* node passed the metadata loop.
FailFastVerification ==
    [][/\ (CallOnExisting /\ DstIsTree) => FailFast(dst, manifest, chk')
       /\ (pc = "r_verify" /\ faults' = faults) => FailFast(tmp, spec, chk')]_vars

\* a metadata mismatch at the last node of the traversal, behind a file:
\* three nodes were visited and none was hashed
FailFastWitness ==
    /\ pc = "idle"
    /\ result = [op |-> "restore", outcome |-> "CollisionError"]
    /\ quiet
    /\ dst = prev.dst
    /\ chk.result = "DifferentSpec"
    /\ chk.at = <<"r", "y">>
    /\ chk.trace = << <<"meta", <<"r">> >>, <<"meta", <<"r", "x">> >>,
                      <<"meta", <<"r", "y">> >> >>
    /\ IsFile(dst, <<"r", "x">>)
    /\ IsFile(dst, <<"r", "y">>)

\* C11 (scoped staging): whenever no call is in progress, whichever way the
\* calls so far ended (success, RestoreError, CollisionError, an unsupported
\* source path, a missing blob or dst_dir, an I/O fault at any step), no
\* staging directory is left in the storage root: it holds the configuration
\* record and the blobs only.
ScopedStaging ==
    pc = "idle" => (tmpdir = FALSE /\ tmp = EmptyTree)

\* a store of a path that does not exist made its staging directory, raised
\* ValueError and left nothing behind
ScopedStagingWitness ==
    /\ pc = "idle"
    /\ result = [op |-> "store", outcome |-> "ValueError"]
    /\ mkdtemps = prev.mkdtemps + 1
    /\ faults = 1
    /\ BlobsPresent(blobs) # {}
    /\ tmpdir = FALSE
    /\ tmp = EmptyTree

\* this step is made by a call of store or restore (not by the environment)
CallStep == pc # "idle" \/ calls' = calls + 1

\* this step ends a call with an exception
CallFails == CallStep /\ pc' = "idle" /\ result'.outcome # "ok"

\* C12 (blobs are append-only): no step of a store or restore call, the
\* steps of calls that fail partway included, deletes a blob that exists or
\* changes it; and when a call fails, every blob that existed when the call
\* started is as it was then, and so are the destination tree and dst_dir.
AppendOnly ==
    [][/\ CallStep => \A a \in BlobsPresent(blobs) : blobs'[a] = blobs[a]
       /\ CallFails =>
            /\ \A a \in BlobsPresent(prev'.blobs) : blobs'[a] = prev'.blobs[a]
            /\ dst' = prev'.dst
            /\ dstdir' = prev'.dstdir]_vars

\* a store failed after it had added a blob: the blobs and the destination
\* tree that were there before the call are as they were
AppendOnlyWitness ==
    /\ pc = "idle"
    /\ result = [op |-> "store", outcome |-> "OSError"]
    /\ quiet
    /\ BlobsPresent(prev.blobs) # {}
    /\ blobs # prev.blobs
    /\ \A a \in BlobsPresent(prev.blobs) : blobs[a] = prev.blobs[a]
    /\ Exists(dst, RootPath)
    /\ dst = prev.dst

\* C13 (store never mutates src_path): no step of a store call changes the
\* source tree, and when the call has ended, with the manifest or with an
\* exception, the source has the entries, bytes, modes and mtimes it had when
\* the call started.
StoreLeavesSource ==
    [][/\ StoreStep => src' = src
       /\ (StoreStep /\ pc' = "idle") => src' = prev'.src]_vars

\* a store of a nested tree moved staged files into the blob namespace and
\* returned; the source is what it was
StoreLeavesSourceWitness ==
    /\ pc = "idle"
    /\ result = [op |-> "store", outcome |-> "ok"]
    /\ quiet
    /\ blobs # prev.blobs
    /\ IsFile(src, <<"r", "x", "z">>)
    /\ IsFile(src, <<"r", "y">>)
    /\ src = prev.src

\* every node of t is a regular file or a directory (nothing is at a path
\* that is not below a directory)
AllRegular(t) ==
    /\ t[RootPath].kind \in {"file", "dir"}
    /\ \A p \in AllPaths : t[p].kind \in {"file", "dir", "absent"}

\* C14 (states the claim): read_spec returns a Node when the path and
\* everything below it are regular files and directories, and raises the
\* unsupported-path-kind error (ValueError) whenever the path or a nested
\* entry is a symbolic link (to a file, to a directory, dangling), a special
\* file, or the path is missing.
ReadSpecUnsupported ==
    result.op = "read_spec" =>
        result.outcome = (IF AllRegular(src) THEN "ok" ELSE "ValueError")

\* what the code does: links to files and directories are followed and
\* specced as their targets; ValueError needs a special file, and a missing
\* path or a dangling link raises FileNotFoundError
ReadSpecFollowsLinks ==
    result.op = "read_spec" =>
        LET kinds == {src[p].kind : p \in AllPaths}
        IN  /\ result.outcome = "ok" <=>
                    /\ src[RootPath].kind # "absent"
                    /\ kinds \subseteq {"file", "dir", "link_file", "link_dir",
                                         "absent"}
            /\ result.outcome = "ValueError" => "special" \in kinds
            /\ result.outcome = "FileNotFoundError" =>
                    (src[RootPath].kind = "absent" \/ "link_dangling" \in kinds)
            /\ result.outcome \in {"ok", "ValueError", "FileNotFoundError"}

RECURSIVE SpecNodes(_, _)
\* the nodes of a spec tree, each with its relative path: the root's is its
\* name, a child's is its parent's joined with the child's name
SpecNodes(s, parent_path) ==
    LET here == parent_path \o <<s.name>>
    IN  {<<here, s>>}
        \cup (IF s.type = "DirSpec"
              THEN UNION {SpecNodes(s.contents[i], here) :
                            i \in 1 .. Len(s.contents)}
              ELSE {})

\* in the spec tree root, the node at path p comes before the node at path q
\* in depth-first pre-order: p is an ancestor of q, or where the two paths
\* part, p's branch stands earlier in the directory's contents sequence
ComesBefore(root, p, q) ==
    LET nodes == SpecNodes(root, << >>)
        common == {k \in 0 .. Len(p) :
                        k <= Len(q) /\ SubSeq(p, 1, k) = SubSeq(q, 1, k)}
        k == CHOOSE n \in common : \A m \in common : m <= n
        dir == (CHOOSE pn \in nodes : pn[1] = SubSeq(p, 1, k))[2]
        index(name) == CHOOSE i \in 1 .. Len(dir.contents) :
                            dir.contents[i].name = name
    IN  IF k = Len(p) THEN Len(q) > Len(p)
        ELSE IF k = Len(q) THEN FALSE
        ELSE index(p[k + 1]) < index(q[k + 1])

\* out is the traversal the claim describes of root_spec under the filter
PreOrder(root_spec, dirs, files, out) ==
    LET nodes == SpecNodes(root_spec, << >>)
        wanted == {pn \in nodes :
                        \/ pn[2].type = "FileSpec" /\ files
                        \/ pn[2].type = "DirSpec" /\ dirs}
    IN  /\ {out[i] : i \in 1 .. Len(out)} = wanted
        /\ Len(out) = Cardinality(wanted)
        /\ \A i, j \in 1 .. Len(out) :
                i < j => ComesBefore(root_spec, out[i][1], out[j][1])

\* C15 (iter_paths_and_specs): the sequence iter_paths_and_specs(spec, dirs,
\* files) yields holds exactly the nodes of spec that the filter selects
\* (directories when dirs, files when files; the files below a directory
\* that is filtered out are there), each once, with the relative path that
\* starts at the root's name and joins the names down to the node, in
\* depth-first pre-order: a directory before everything below it, and
\* siblings (with all below them) in the order of the contents sequence.
IterPreOrder ==
    result.op = "iter_paths_and_specs" =>
        PreOrder(spec, result.outcome \in {"dirs,files", "dirs"},
                 result.outcome \in {"dirs,files", "files"}, queue)

\* the files of a tree with a nested directory, the directories filtered
\* out: the file below the nested directory is yielded, before or after its
\* parent's sibling as the contents sequence has it
IterPreOrderWitness ==
    /\ result = [op |-> "iter_paths_and_specs", outcome |-> "files"]
    /\ spec.type = "DirSpec"
    /\ Len(spec.contents) = 2
    /\ spec.contents[2].type = "DirSpec"
    /\ Len(queue) = 2
    /\ queue[1][1] = <<"r", "y">>
    /\ queue[2][1] = <<"r", "x", "z">>

\* the relative paths of a traversal
PathsOf(pairs) == {pairs[i][1] : i \in 1 .. Len(pairs)}

\* the parent of the relative path p is a directory of tree t, or p is the
\* root of the tree
ParentReady(t, p) == Len(p) = 1 \/ IsDir(t, Parent(p))

\* C16 (restore staging order): in every step of _restore_into,
\*  - a directory is created only where its parent exists, and a file is
\*    copied only when every directory of the spec exists, its own parent
\*    among them;
\*  - during the first two passes no recorded metadata has been applied: every
\*    staged directory still has the mode and mtime of its creation;
\*  - mode and mtime are applied to a node only when every node of the spec
\*    exists in staging, the mode before the mtime;
\*  - from the third pass on, a step changes nothing but the node it applies
\*    metadata to, so nothing is created and no applied mtime is disturbed;
\*  - verification starts only when all three passes are complete: every
\*    node of the spec is staged with its recorded mode and mtime.
StagingOrder ==
    [][LET dirs == iter_paths_and_specs(spec, TRUE, FALSE)
           all == iter_paths_and_specs(spec, TRUE, TRUE)
           fresh == DirNode([perm |-> FreshPerm, mtime |-> Now])
       IN  /\ (pc = "r_dirs") => ParentReady(tmp, Head(queue)[1])
           /\ (pc = "r_files") =>
                /\ \A q \in PathsOf(dirs) : IsDir(tmp, q)
                /\ ParentReady(tmp, Head(queue)[1])
           /\ (pc \in {"r_dirs", "r_files"}) =>
                \A q \in AllPaths : IsDir(tmp', q) => tmp'[q] = fresh
           /\ (pc \in {"r_meta", "r_mtime"}) =>
                /\ \A q \in PathsOf(all) : Exists(tmp, q)
                /\ \A q \in AllPaths \ {Head(queue)[1]} :
                        pc' # "idle" => tmp'[q] = tmp[q]
           /\ (pc = "r_mtime") =>
                StMode(tmp[Head(queue)[1]]) = Head(queue)[2].meta.mode
           /\ (pc \in {"r_verify", "r_rename"}) =>
                (pc' # "idle" => tmp' = tmp)
           /\ (pc = "r_verify") =>
                /\ queue = << >>
                /\ \A i \in 1 .. Len(all) :
                        /\ Exists(tmp, all[i][1])
                        /\ StMode(tmp[all[i][1]]) = all[i][2].meta.mode
                        /\ tmp[all[i][1]].mtime = all[i][2].meta.mtime_ns]_vars

\* a nested tree is staged and about to be verified: the directories, then
\* the files, then every node's metadata
StagingOrderWitness ==
    /\ pc = "r_verify"
    /\ IsDir(tmp, <<"r", "x">>)
    /\ IsFile(tmp, <<"r", "x", "z">>)
    /\ IsFile(tmp, <<"r", "y">>)
    /\ tmp[<<"r", "x">>].mtime # Now
    /\ Fulfils(tmp, spec)

\* C17 (the storage's hash algorithm): every FileSpec of a manifest that
\* store returns carries the hash_name of the storage's configuration record,
\* and a blob appears or changes only by a step of store, at the address
\* hash_name / digest, the digest being that of the blob's bytes under this
\* hash_name.
HashNameBound ==
    [][/\ manifest' # NoSpec =>
            LET fls == iter_paths_and_specs(manifest', FALSE, TRUE)
            IN  \A j \in 1 .. Len(fls) :
                    fls[j][2].hash_name = storage_meta.hash_name
       /\ \A a \in Addresses :
            blobs'[a] # blobs[a] =>
                /\ StoreStep
                /\ a = <<storage_meta.hash_name,
                         get_file_hexdigest(blobs'[a].bytes,
                                            storage_meta.hash_name)>>]_vars

\* a storage whose record names another algorithm than the default one
\* returned a manifest of two files and holds their two blobs
HashNameWitness ==
    /\ pc = "idle"
    /\ result = [op |-> "store", outcome |-> "ok"]
    /\ storage_meta.hash_name # DEFAULT_HASH
    /\ manifest.type = "DirSpec"
    /\ Len(iter_paths_and_specs(manifest, FALSE, TRUE)) = 2
    /\ Cardinality(BlobsPresent(blobs)) = 2

\* C18 (blob integrity): in every state of every interleaving of two
\* processes' store and restore calls, the states in the middle of a store
\* included, every file at an address <<hash_name, digest>> is a whole regular
\* file whose bytes have this digest under this hash_name.
BlobIntegrity ==
    \A a \in BlobsPresent(blobs) :
        /\ blobs[a].kind = "file"
        /\ blobs[a].bytes \in SrcContents
        /\ a[2] = get_file_hexdigest(blobs[a].bytes, a[1])

\* both processes are in the middle of a store, one about to rename a file
\* of its staging directory, and blobs are there
BlobIntegrityWitness ==
    /\ pc = "s_move"
    /\ other.pc = "s_files"
    /\ other.queue # << >>
    /\ Cardinality(BlobsPresent(blobs)) = 2

\* both processes have made a call of store, and both calls have ended
BothStored ==
    /\ pc = "idle"
    /\ other.pc = "idle"
    /\ result.op = "store"
    /\ other.result.op = "store"

\* the FileSpecs of a spec
FileSpecsOf(root_spec) ==
    LET fls == iter_paths_and_specs(root_spec, FALSE, TRUE)
    IN  {fls[j][2] : j \in 1 .. Len(fls)}

\* C19 (states the claim): when two processes store the same tree, under
\* every interleaving of their steps, both calls return without an
\* exception, the FileSpecs they return are equal, and for each of them
\* there is afterwards one blob at its address, holding the file's bytes.
ConcurrentStores ==
    BothStored =>
        /\ result.outcome = "ok"
        /\ other.result.outcome = "ok"
        /\ FileSpecsOf(spec) = FileSpecsOf(other.spec)
        /\ \A f \in FileSpecsOf(spec) :
                /\ blob_exists(_get_storage_path(f))
                /\ get_file_hexdigest(blobs[_get_storage_path(f)].bytes,
                                      f.hash_name) = f.hexdigest

\* what the code does guarantee: a store fails only with FileExistsError,
\* where os.rename does not replace; the FileSpecs read are equal, and the
\* blobs of the calls that returned are in place
ConcurrentStoresUnlessRefused ==
    BothStored =>
        /\ {result.outcome, other.result.outcome} \subseteq {"ok", "FileExistsError"}
        /\ FileSpecsOf(spec) = FileSpecsOf(other.spec)
        /\ (result.outcome = "ok" \/ other.result.outcome = "ok") =>
                \A f \in FileSpecsOf(spec) :
                    /\ blob_exists(_get_storage_path(f))
                    /\ get_file_hexdigest(blobs[_get_storage_path(f)].bytes,
                                          f.hash_name) = f.hexdigest

\* both processes have made a call of restore, and both calls have ended
BothRestored ==
    /\ pc = "idle"
    /\ other.pc = "idle"
    /\ result.op = "restore"
    /\ other.result.op = "restore"

\* C20 (concurrent restores to one destination): in every state of every
\* interleaving of two processes' restore calls of the stored manifest into
\* dst_dir, dst_dir/spec.name is absent or a complete tree equivalent to the
\* manifest (every node with its kind, bytes, mode and mtime, and nothing
\* else); and when both calls have ended it is there.
ConcurrentRestores ==
    /\ Exists(dst, RootPath) => Equivalent(dst, manifest)
    /\ BothRestored => Exists(dst, RootPath)

\* both restores found dst_path absent and staged a nested tree; one renamed
\* it into place, the other's rename was refused
ConcurrentRestoresWitness ==
    /\ BothRestored
    /\ mkdtemps = 3
    /\ {result.outcome, other.result.outcome} = {"ok", "OSError"}
    /\ IsFile(dst, <<"r", "x", "z">>)
    /\ IsFile(dst, <<"r", "y">>)
    /\ Equivalent(dst, manifest)

\* the files of tree t at the places of root_spec's FileSpecs have the mode
\* and mtime their own FileSpec records
OwnMetadata(t, root_spec) ==
    LET fls == iter_paths_and_specs(root_spec, FALSE, TRUE)
    IN  \A j \in 1 .. Len(fls) :
            /\ IsFile(t, fls[j][1])
            /\ StMode(t[fls[j][1]]) = fls[j][2].meta.mode
            /\ t[fls[j][1]].mtime = fls[j][2].meta.mtime_ns

\* C21 (restored metadata comes from the manifest, not from the blob):
\*  - the rename of store puts the staged file at the address as it is, with
\*    its mode and mtime, and a later file of the same bytes leaves that blob
\*    alone (the blob keeps the metadata of the file moved first);
\*  - as long as no blob's bytes were changed from outside, the staged tree
\*    of a restore passes verification, each staged file having the mode and
\*    mtime of its own FileSpec, whatever the blob's are;
\*  - and so has each file of the tree the rename puts at dst_path.
MetadataFromManifest ==
    [][/\ (pc = "s_move") =>
            (pc' # "idle" =>
                blobs'[_get_storage_path(Head(queue)[2])] = tmp[Head(queue)[1]])
       /\ (pc = "s_files" /\ queue # << >> /\ has_file(Head(queue)[2])) =>
            blobs' = blobs
       /\ (pc = "r_verify" /\ "corrupt" \notin envs /\ faults' = faults) =>
            /\ pc' = "r_rename"
            /\ chk'.result = "ok"
            /\ OwnMetadata(tmp, spec)
       /\ (pc = "r_rename" /\ Exists(dst', RootPath)) =>
            OwnMetadata(dst', spec)]_vars

\* two files of the same bytes and different mtimes were stored as one blob
\* and restored: one of them has another mtime than the blob, and each has
\* the mtime of its FileSpec
MetadataFromManifestWitness ==
    /\ RestoredFresh
    /\ IsFile(dst, <<"r", "x">>)
    /\ IsFile(dst, <<"r", "y">>)
    /\ dst[<<"r", "x">>].bytes = dst[<<"r", "y">>].bytes
    /\ dst[<<"r", "x">>].mtime # dst[<<"r", "y">>].mtime
    /\ Cardinality(BlobsPresent(blobs)) = 1
    /\ \E a \in BlobsPresent(blobs) :
            \E q \in {<<"r", "x">>, <<"r", "y">>} :
                /\ blobs[a].mtime # dst[q].mtime
                /\ blobs[a].perm # dst[q].perm
    /\ OwnMetadata(dst, spec)

=============================================================================
